---- MODULE Spec2Model ----
(***************************************************************************)
(* Model of the stake-tracker pallet                                       *)
(* (substrate/frame/staking/stake-tracker/src/lib.rs).                     *)
(*                                                                         *)
(* The pallet listens to staking events (OnStakingUpdate) and keeps two    *)
(* sorted lists, VoterList and TargetList, in sync with the staking        *)
(* ledger.  The handlers and update_target_score are translated from the   *)
(* source.  The collaborators the pallet is generic over -- the            *)
(* SortedListProvider behind both lists, the StakingInterface (ledger) and *)
(* CurrencyToVote -- are not part of the source files and are modelled     *)
(* from the specification's external-interface section.                    *)
(*                                                                         *)
(* Two smaller components follow the pallet at the end of the module, each *)
(* with a specification of its own: revive's CallTracer                    *)
(* (substrate/frame/revive/src/debug.rs) and the staking asset module      *)
(* (substrate/frame/staking/src/asset.rs).                                 *)
(***************************************************************************)
EXTENDS Integers, Sequences, FiniteSets, TLC

NumAccounts == 3
MaxStake == 2
MaxNominations == 2
MaxFactor == 2
MaxCalls == 3
MaxProviders == 3

Accounts == 1..NumAccounts
Statuses == {"Err", "Idle", "Validator", "Nominator"}

VARIABLES
    status,        \* StakingInterface::status per account: "Err" (not bonded) or a StakerStatus
    active,        \* StakingInterface::stake(who).active per account (0 when not bonded)
    nominations,   \* StakingInterface::nominations per account (<<>> unless a nominator)
    factor,        \* CurrencyToVote factor derived from Currency::total_issuance()
    VoterList,     \* T::VoterList: function from the listed voters to their score
    TargetList,    \* T::TargetList: sequence of [id, score] nodes in iteration order
    try_state,     \* the try-state check that ran last and its result, <<>> if none ran
    tracer,        \* revive's CallTracer: [traces, current_stack]
    call_log,      \* the calls made so far as a forest: [open, done]
    free,          \* Currency::balance per account
    on_hold,       \* Currency::balance_on_hold(HoldReason::Staking) per account
    providers,     \* inc_providers minus dec_providers calls of the staking asset module
    killed         \* per account: kill_stake was the last call on its stake

tracer_vars == <<tracer, call_log>>
asset_vars == <<free, on_hold, providers, killed>>

vars == <<status, active, nominations, factor, VoterList, TargetList, try_state,
          tracer, call_log, free, on_hold, providers, killed>>

\* the tracer and the staking asset before any call
TracerNew ==
    /\ tracer = [traces |-> <<>>, current_stack |-> <<>>]
    /\ call_log = [open |-> <<>>, done |-> <<>>]

AssetUnused ==
    /\ free = [a \in Accounts |-> 0]
    /\ on_hold = [a \in Accounts |-> 0]
    /\ providers = [a \in Accounts |-> 0]
    /\ killed = [a \in Accounts |-> FALSE]

(***************************************************************************)
(* Option<Stake<Balance>>: None is <<>>, Some(stake) is <<stake.active>>.  *)
(***************************************************************************)
None == <<>>
Some(v) == <<v>>

\* The nominations of a nominator: a Vec<AccountId> that staking keeps sorted and
\* free of duplicates, 1..MaxNominations long.
NominationLists ==
    {s \in UNION {[1..n -> Accounts] : n \in 1..MaxNominations} :
        \A i, j \in DOMAIN s : i < j => s[i] < s[j]}

SeqContains(s, x) == \E i \in DOMAIN s : s[i] = x

-----------------------------------------------------------------------------
(***************************************************************************)
(* StakingInterface, as seen by the pallet.  L is the ledger the handler   *)
(* reads: [status, active, nominations, factor].                           *)
(***************************************************************************)
Ledger == [status |-> status, active |-> active, nominations |-> nominations,
           factor |-> factor]

staking_status(L, who) == L.status[who]
status_is_err(L, who) == L.status[who] = "Err"
stake_is_ok(L, who) == L.status[who] # "Err"
stake_active(L, who) == L.active[who]
staking_nominations(L, who) ==
    IF L.status[who] = "Nominator" THEN L.nominations[who] ELSE <<>>
is_nominator(L, who) == L.status[who] = "Nominator"

(***************************************************************************)
(* CurrencyToVote::to_vote / to_currency with the issuance factor:         *)
(* to_vote divides the balance by the factor, to_currency multiplies the   *)
(* vote by it.                                                             *)
(***************************************************************************)
to_vote(L, balance) == balance \div L.factor
currency_of_vote(L, vote) == vote * L.factor

-----------------------------------------------------------------------------
(***************************************************************************)
(* SortedListProvider for T::TargetList: nodes kept in non-increasing      *)
(* score order; nodes of equal score are kept in account order.            *)
(***************************************************************************)
target_ids(tl) == {tl[i].id : i \in DOMAIN tl}
target_contains(tl, who) == who \in target_ids(tl)
target_get_score(tl, who) ==
    LET i == CHOOSE k \in DOMAIN tl : tl[k].id = who IN tl[i].score
target_without(tl, who) == SelectSeq(tl, LAMBDA n : n.id # who)
target_place(tl, node) ==
    LET k == Cardinality({i \in DOMAIN tl :
                             \/ tl[i].score > node.score
                             \/ tl[i].score = node.score /\ tl[i].id < node.id})
    IN  SubSeq(tl, 1, k) \o <<node>> \o SubSeq(tl, k + 1, Len(tl))
target_on_insert(tl, who, score) ==
    IF target_contains(tl, who) THEN tl
    ELSE target_place(tl, [id |-> who, score |-> score])
target_on_remove(tl, who) == target_without(tl, who)
\* mutant: the new score is written into the node where it stands
target_on_update_in_place(tl, who, score) ==
    [i \in DOMAIN tl |-> IF tl[i].id = who THEN [id |-> who, score |-> score] ELSE tl[i]]
target_on_update(tl, who, score) ==
    IF ~target_contains(tl, who) THEN tl
    ELSE target_place(target_without(tl, who), [id |-> who, score |-> score])
target_on_increase(tl, who, additional) ==
    IF ~target_contains(tl, who) THEN tl
    ELSE target_on_update(tl, who, target_get_score(tl, who) + additional)

(***************************************************************************)
(* SortedListProvider for T::VoterList: no order is kept by this pallet.   *)
(***************************************************************************)
voter_contains(vl, who) == who \in DOMAIN vl
voter_get_score(vl, who) == vl[who]
voter_on_insert(vl, who, score) ==
    IF who \in DOMAIN vl THEN vl
    ELSE [x \in DOMAIN vl \cup {who} |-> IF x = who THEN score ELSE vl[x]]
voter_on_remove(vl, who) == [x \in DOMAIN vl \ {who} |-> vl[x]]
voter_on_update(vl, who, score) ==
    IF who \notin DOMAIN vl THEN vl ELSE [vl EXCEPT ![who] = score]

-----------------------------------------------------------------------------
(***************************************************************************)
(* Pallet helpers.  S is the pallet's view of storage while a handler      *)
(* runs: [voters, targets] plus how the call went so far: defensive (a     *)
(* defensive!/defensive_proof branch was taken), assert_failed (a          *)
(* debug_assert! was false) and panic (an expect() failed).                *)
(***************************************************************************)
Storage == [voters |-> VoterList, targets |-> TargetList,
            defensive |-> FALSE, assert_failed |-> FALSE, panic |-> FALSE]

Defensive(S) == [S EXCEPT !.defensive = TRUE]

active_vote_of(L, who) == IF stake_is_ok(L, who) THEN stake_active(L, who) ELSE 0
active_vote_defensive(L, S, who) == IF stake_is_ok(L, who) THEN S ELSE Defensive(S)

weight_of(L, balance) == to_vote(L, balance)
to_vote_extended(L, balance) == to_vote(L, balance)
to_currency(L, extended) == currency_of_vote(L, extended)

\* mutant: the ledger's state is not consulted
should_remove_target_any_status(L, who, score) == score = 0
should_remove_target(L, who, score) == score = 0 /\ status_is_err(L, who)

Positive(d) == [sign |-> "Positive", amount |-> d]
Negative(d) == [sign |-> "Negative", amount |-> d]

saturating_sub(a, b) == IF a >= b THEN a - b ELSE 0

\* mutant: a target is never taken off the list
update_target_score_never_removes(L, S, who, imbalance) ==
    IF ~target_contains(S.targets, who) /\ staking_status(L, who) # "Idle"
    THEN Defensive(S)
    ELSE
        LET tl == IF ~target_contains(S.targets, who)
                  THEN target_on_insert(S.targets, who, 0)
                  ELSE S.targets
        IN  IF imbalance.sign = "Positive"
            THEN [S EXCEPT !.targets =
                     target_on_increase(tl, who, to_currency(L, imbalance.amount))]
            ELSE
                LET current_score == target_get_score(tl, who)
                    balance == saturating_sub(to_vote_extended(L, current_score),
                                              imbalance.amount)
                IN  [S EXCEPT !.targets =
                        target_on_update(tl, who, to_currency(L, balance))]

\* mutant: a target that is not listed is inserted whatever its status
update_target_score_inserts_any(L, S, who, imbalance) ==
    LET tl == IF ~target_contains(S.targets, who)
              THEN target_on_insert(S.targets, who, 0)
              ELSE S.targets
    IN  IF imbalance.sign = "Positive"
        THEN [S EXCEPT !.targets =
                 target_on_increase(tl, who, to_currency(L, imbalance.amount))]
        ELSE
            LET current_score == target_get_score(tl, who)
                balance == saturating_sub(to_vote_extended(L, current_score),
                                          imbalance.amount)
            IN  IF should_remove_target(L, who, to_currency(L, balance))
                THEN [S EXCEPT !.targets = target_on_remove(tl, who)]
                ELSE [S EXCEPT !.targets =
                         target_on_update(tl, who, to_currency(L, balance))]

\* mutant: a positive imbalance also drops an unbonded target whose score stays zero
update_target_score_positive_removes(L, S, who, imbalance) ==
    IF ~target_contains(S.targets, who) /\ staking_status(L, who) # "Idle"
    THEN Defensive(S)
    ELSE
        LET tl == IF ~target_contains(S.targets, who)
                  THEN target_on_insert(S.targets, who, 0)
                  ELSE S.targets
            current_score == target_get_score(tl, who)
        IN  IF imbalance.sign = "Positive"
            THEN IF should_remove_target(L, who,
                        current_score + to_currency(L, imbalance.amount))
                 THEN [S EXCEPT !.targets = target_on_remove(tl, who)]
                 ELSE [S EXCEPT !.targets =
                          target_on_increase(tl, who, to_currency(L, imbalance.amount))]
            ELSE
                LET balance == saturating_sub(to_vote_extended(L, current_score),
                                              imbalance.amount)
                IN  IF should_remove_target(L, who, to_currency(L, balance))
                    THEN [S EXCEPT !.targets = target_on_remove(tl, who)]
                    ELSE [S EXCEPT !.targets =
                             target_on_update(tl, who, to_currency(L, balance))]

update_target_score(L, S, who, imbalance) ==
    IF ~target_contains(S.targets, who) /\ staking_status(L, who) # "Idle"
    THEN Defensive(S)
    ELSE
        LET tl == IF ~target_contains(S.targets, who)
                  THEN target_on_insert(S.targets, who, 0)
                  ELSE S.targets
        IN  IF imbalance.sign = "Positive"
            THEN [S EXCEPT !.targets =
                     target_on_increase(tl, who, to_currency(L, imbalance.amount))]
            ELSE
                LET current_score == target_get_score(tl, who)
                    balance == saturating_sub(to_vote_extended(L, current_score),
                                              imbalance.amount)
                IN  IF should_remove_target(L, who, to_currency(L, balance))
                    THEN [S EXCEPT !.targets = target_on_remove(tl, who)]
                    ELSE [S EXCEPT !.targets =
                             target_on_update(tl, who, to_currency(L, balance))]

\* `for target in targets { update_target_score(target, imbalance) }`
RECURSIVE update_target_scores(_, _, _, _)
update_target_scores(L, S, targets, imbalance) ==
    IF targets = <<>> THEN S
    ELSE update_target_scores(L, update_target_score(L, S, Head(targets), imbalance),
                              Tail(targets), imbalance)

-----------------------------------------------------------------------------
(***************************************************************************)
(* impl OnStakingUpdate for Pallet<T>.  Each handler maps the storage S    *)
(* to the storage after the call, reading the ledger L.                    *)
(***************************************************************************)

\* mutant: the imbalance is always added, whatever its sign
stake_imbalance_of_unsigned(L, prev_stake, voter_weight) ==
    IF prev_stake # None
    THEN LET prev_voter_weight == to_vote_extended(L, prev_stake[1])
         IN  IF prev_voter_weight > voter_weight
             THEN Positive(saturating_sub(prev_voter_weight, voter_weight))
             ELSE Positive(saturating_sub(voter_weight, prev_voter_weight))
    ELSE Positive(voter_weight)

\* closure stake_imbalance_of(prev_stake, voter_weight) of on_stake_update
stake_imbalance_of(L, prev_stake, voter_weight) ==
    IF prev_stake # None
    THEN LET prev_voter_weight == to_vote_extended(L, prev_stake[1])
         IN  IF prev_voter_weight > voter_weight
             THEN Negative(saturating_sub(prev_voter_weight, voter_weight))
             ELSE Positive(saturating_sub(voter_weight, prev_voter_weight))
    ELSE Positive(voter_weight)

voter_update_defensive(S, who) ==
    IF voter_contains(S.voters, who) THEN S ELSE Defensive(S)

\* mutant: the voter's score is left as it was
on_stake_update_stale_voter(L, S, who, prev_stake, stake) ==
    IF ~(~status_is_err(L, who) /\ stake_is_ok(L, who))
    THEN Defensive(S)
    ELSE
        LET voter_weight == weight_of(L, stake)
            stake_imbalance == stake_imbalance_of(L, prev_stake, voter_weight)
        IN  CASE staking_status(L, who) = "Nominator" ->
                    update_target_scores(L, S, staking_nominations(L, who),
                                         stake_imbalance)
              [] staking_status(L, who) = "Validator" ->
                    update_target_score(L, S, who, stake_imbalance)
              [] OTHER -> S

\* mutant: an Idle staker has its own target score updated like a validator
on_stake_update_idle_tracked(L, S, who, prev_stake, stake) ==
    IF ~(~status_is_err(L, who) /\ stake_is_ok(L, who))
    THEN Defensive(S)
    ELSE
        LET voter_weight == weight_of(L, stake)
            stake_imbalance == stake_imbalance_of(L, prev_stake, voter_weight)
        IN  CASE staking_status(L, who) = "Nominator" ->
                    LET S1 == [voter_update_defensive(S, who) EXCEPT
                                  !.voters = voter_on_update(S.voters, who, voter_weight)]
                    IN  update_target_scores(L, S1, staking_nominations(L, who),
                                             stake_imbalance)
              [] staking_status(L, who) = "Validator" ->
                    LET S1 == update_target_score(L, S, who, stake_imbalance)
                    IN  [voter_update_defensive(S1, who) EXCEPT
                            !.voters = voter_on_update(S1.voters, who, voter_weight)]
              [] OTHER -> update_target_score(L, S, who, stake_imbalance)

on_stake_update(L, S, who, prev_stake, stake) ==
    IF ~(~status_is_err(L, who) /\ stake_is_ok(L, who))
    THEN Defensive(S)
    ELSE
        LET voter_weight == weight_of(L, stake)
            stake_imbalance == stake_imbalance_of(L, prev_stake, voter_weight)
        IN  CASE staking_status(L, who) = "Nominator" ->
                    LET S1 == [voter_update_defensive(S, who) EXCEPT
                                  !.voters = voter_on_update(S.voters, who, voter_weight)]
                    IN  update_target_scores(L, S1, staking_nominations(L, who),
                                             stake_imbalance)
              [] staking_status(L, who) = "Validator" ->
                    LET S1 == update_target_score(L, S, who, stake_imbalance)
                    IN  [voter_update_defensive(S1, who) EXCEPT
                            !.voters = voter_on_update(S1.voters, who, voter_weight)]
              [] OTHER -> S

\* mutant: no early return for a voter that is already listed
on_nominator_add_unguarded(L, S, who, noms) ==
    LET nominator_vote == weight_of(L, active_vote_of(L, who))
        S0 == active_vote_defensive(L, S, who)
        S1 == [S0 EXCEPT !.voters = voter_on_insert(S0.voters, who, nominator_vote)]
    IN  CASE staking_status(L, who) = "Nominator" ->
                update_target_scores(L, S1, noms, Positive(nominator_vote))
          [] staking_status(L, who) = "Err" -> Defensive(S1)
          [] OTHER -> S1

\* mutant: the voter is inserted with its raw active stake instead of its weight
on_nominator_add_unweighted(L, S, who, noms) ==
    LET nominator_vote == weight_of(L, active_vote_of(L, who))
        S0 == active_vote_defensive(L, S, who)
    IN  IF voter_contains(S0.voters, who) THEN S0
        ELSE
            LET S1 == [S0 EXCEPT !.voters =
                          voter_on_insert(S0.voters, who, active_vote_of(L, who))]
            IN  CASE staking_status(L, who) = "Nominator" ->
                        update_target_scores(L, S1, noms, Positive(nominator_vote))
                  [] staking_status(L, who) = "Err" -> Defensive(S1)
                  [] OTHER -> S1

on_nominator_add(L, S, who, noms) ==
    LET nominator_vote == weight_of(L, active_vote_of(L, who))
        S0 == active_vote_defensive(L, S, who)
    IN  IF voter_contains(S0.voters, who) THEN S0
        ELSE
            LET S1 == [S0 EXCEPT !.voters = voter_on_insert(S0.voters, who, nominator_vote)]
            IN  CASE staking_status(L, who) = "Nominator" ->
                        update_target_scores(L, S1, noms, Positive(nominator_vote))
                  [] staking_status(L, who) = "Err" -> Defensive(S1)
                  [] OTHER -> S1

\* mutant: the voter is not taken off the voter list
on_nominator_remove_keeps_voter(L, S, who, noms) ==
    LET nominator_vote == weight_of(L, active_vote_of(L, who))
        S0 == active_vote_defensive(L, S, who)
    IN  update_target_scores(L, S0, noms, Negative(nominator_vote))

\* mutant: the scores of the nominations are left as they were
on_nominator_remove_keeps_scores(L, S, who, noms) ==
    LET S0 == active_vote_defensive(L, S, who)
    IN  [voter_update_defensive(S0, who) EXCEPT
            !.voters = voter_on_remove(S0.voters, who)]

\* mutant: the call also clears every target left with score zero
on_nominator_remove_purges_targets(L, S, who, noms) ==
    LET nominator_vote == weight_of(L, active_vote_of(L, who))
        S0 == active_vote_defensive(L, S, who)
        S1 == update_target_scores(L, S0, noms, Negative(nominator_vote))
        S2 == [S1 EXCEPT !.targets = SelectSeq(S1.targets, LAMBDA n : n.score # 0)]
    IN  [voter_update_defensive(S2, who) EXCEPT
            !.voters = voter_on_remove(S2.voters, who)]

on_nominator_remove(L, S, who, noms) ==
    LET nominator_vote == weight_of(L, active_vote_of(L, who))
        S0 == active_vote_defensive(L, S, who)
        S1 == update_target_scores(L, S0, noms, Negative(nominator_vote))
    IN  [voter_update_defensive(S1, who) EXCEPT
            !.voters = voter_on_remove(S1.voters, who)]

on_nominator_idle(L, S, who, noms) == on_nominator_remove(L, S, who, noms)

\* mutant: the validator is not added as a voter
on_validator_add_no_voter(L, S, who, self_stake) ==
    LET self == IF self_stake = None THEN 0 ELSE self_stake[1]
    IN  IF ~target_contains(S.targets, who)
        THEN [S EXCEPT !.targets = target_on_insert(S.targets, who, self)]
        ELSE update_target_score(L, S, who, Positive(to_vote_extended(L, self)))

\* mutant: the score of a listed target is overwritten with the self stake
on_validator_add_overwrites(L, S, who, self_stake) ==
    LET self == IF self_stake = None THEN 0 ELSE self_stake[1]
        S1 == IF ~target_contains(S.targets, who)
              THEN [S EXCEPT !.targets = target_on_insert(S.targets, who, self)]
              ELSE [S EXCEPT !.targets = target_on_update(S.targets, who, self)]
    IN  on_nominator_add(L, S1, who, <<>>)

on_validator_add(L, S, who, self_stake) ==
    LET self == IF self_stake = None THEN 0 ELSE self_stake[1]
        S1 == IF ~target_contains(S.targets, who)
              THEN [S EXCEPT !.targets = target_on_insert(S.targets, who, self)]
              ELSE LET A == IF staking_status(L, who) \in {"Idle", "Err"}
                            THEN S ELSE [S EXCEPT !.assert_failed = TRUE]
                   IN  update_target_score(L, A, who,
                                           Positive(to_vote_extended(L, self)))
    IN  on_nominator_add(L, S1, who, <<>>)

on_validator_idle(L, S, who) ==
    LET self_stake == weight_of(L, active_vote_of(L, who))
        S0 == active_vote_defensive(L, S, who)
        S1 == update_target_score(L, S0, who, Negative(self_stake))
    IN  on_nominator_idle(L, S1, who, <<>>)

\* mutant: the target is removed whatever its score
on_validator_remove_always(L, S, who) ==
    IF staking_status(L, who) \in {"Nominator", "Err"}
    THEN Defensive(S)
    ELSE
        LET S1 == IF staking_status(L, who) = "Validator"
                  THEN on_validator_idle(L, S, who) ELSE S
        IN  IF target_contains(S1.targets, who)
            THEN [S1 EXCEPT !.targets = target_on_remove(S1.targets, who)]
            ELSE [S1 EXCEPT !.panic = TRUE]

\* mutant: the status of who is not looked at
on_validator_remove_unguarded(L, S, who) ==
    LET S1 == IF staking_status(L, who) = "Validator"
              THEN on_validator_idle(L, S, who) ELSE S
        score == IF target_contains(S1.targets, who)
                 THEN target_get_score(S1.targets, who) ELSE 0
    IN  IF score = 0
        THEN IF target_contains(S1.targets, who)
             THEN [S1 EXCEPT !.targets = target_on_remove(S1.targets, who)]
             ELSE [S1 EXCEPT !.panic = TRUE]
        ELSE S1

on_validator_remove(L, S, who) ==
    IF staking_status(L, who) \in {"Nominator", "Err"}
    THEN Defensive(S)
    ELSE
        LET S1 == IF staking_status(L, who) = "Validator"
                  THEN on_validator_idle(L, S, who) ELSE S
            score == IF target_contains(S1.targets, who)
                     THEN target_get_score(S1.targets, who) ELSE 0
        IN  IF score = 0
            THEN IF target_contains(S1.targets, who)
                 THEN [S1 EXCEPT !.targets = target_on_remove(S1.targets, who)]
                 ELSE [S1 EXCEPT !.panic = TRUE]
            ELSE S1

\* targets of `these` that `those` does not contain, in order
RECURSIVE not_in(_, _)
not_in(these, those) ==
    IF these = <<>> THEN <<>>
    ELSE IF SeqContains(those, Head(these)) THEN not_in(Tail(these), those)
         ELSE <<Head(these)>> \o not_in(Tail(these), those)

\* mutant: every nomination of the new list is taken as new
on_nominator_update_all_new(L, S, who, prev_nominations, noms) ==
    LET nominator_vote == weight_of(L, active_vote_of(L, who))
        S0 == active_vote_defensive(L, S, who)
        S1 == update_target_scores(L, S0, noms, Positive(nominator_vote))
    IN  update_target_scores(L, S1, not_in(prev_nominations, noms),
                             Negative(nominator_vote))

\* mutant: the nominations that were dropped keep the nominator's weight
on_nominator_update_no_removed(L, S, who, prev_nominations, noms) ==
    LET nominator_vote == weight_of(L, active_vote_of(L, who))
        S0 == active_vote_defensive(L, S, who)
    IN  update_target_scores(L, S0, not_in(noms, prev_nominations),
                             Positive(nominator_vote))

on_nominator_update(L, S, who, prev_nominations, noms) ==
    LET nominator_vote == weight_of(L, active_vote_of(L, who))
        S0 == active_vote_defensive(L, S, who)
        S1 == update_target_scores(L, S0, not_in(noms, prev_nominations),
                                   Positive(nominator_vote))
    IN  update_target_scores(L, S1, not_in(prev_nominations, noms),
                             Negative(nominator_vote))

on_slash(L, S, stash, slashed_active, slashed_total) == S

-----------------------------------------------------------------------------
(***************************************************************************)
(* Try-state checks (cfg(any(test, feature = "try-runtime"))).  A check    *)
(* reads the ledger L, the voter list vl and the target list tl and        *)
(* returns Ok, Err(message), or does not return because an expect or a     *)
(* panic! was hit (Panic).                                                 *)
(***************************************************************************)
Ok == <<"Ok">>
Err(msg) == <<"Err", msg>>
Panic(msg) == <<"panic", msg>>

\* the loop of do_try_state_target_sorting from node i on
RECURSIVE target_sorting_from(_, _, _)
target_sorting_from(tl, i, current_highest) ==
    IF i > Len(tl) THEN Ok
    ELSE LET target_score == tl[i].score
             highest == IF current_highest = None THEN Some(target_score)
                        ELSE current_highest
         IN  IF highest[1] >= target_score
             THEN target_sorting_from(tl, i + 1, highest)
             ELSE Err("target list is not sorted")

do_try_state_target_sorting(tl) == target_sorting_from(tl, 1, None)

\* the voters of vl that staking reports nominations for
nominating_voters(L, vl) == {v \in DOMAIN vl : is_nominator(L, v)}

RECURSIVE SumScores(_, _)
SumScores(vl, voters) ==
    IF voters = {} THEN 0
    ELSE LET v == CHOOSE x \in voters : TRUE
         IN  vl[v] + SumScores(vl, voters \ {v})

\* approvals_map after the loop over T::VoterList::iter()
approvals_of_voters(L, vl) ==
    LET nominated == {t \in Accounts : \E v \in nominating_voters(L, vl) :
                         SeqContains(staking_nominations(L, v), t)}
    IN  [t \in nominated |->
            SumScores(vl, {v \in nominating_voters(L, vl) :
                              SeqContains(staking_nominations(L, v), t)})]

\* `if let Some(stake) = approvals_map.get_mut(..) { *stake += score } else { insert }`
approvals_add(map, t, score) ==
    [k \in DOMAIN map \cup {t} |->
        IF k = t THEN (IF t \in DOMAIN map THEN map[t] ELSE 0) + score ELSE map[k]]

\* the comparison of the calculated approvals with the list, over keys, in key order
RECURSIVE approvals_compare(_, _, _, _)
approvals_compare(L, tl, map, keys) ==
    IF keys = {}
    THEN IF Cardinality(DOMAIN map) = Len(tl) THEN Ok
         ELSE Err("calculated approvals count is different from total of target list.")
    ELSE LET target == CHOOSE k \in keys : \A o \in keys : k <= o
         IN  IF ~target_contains(tl, target) THEN Panic("target must exist; qed.")
             ELSE IF map[target] # to_vote_extended(L, target_get_score(tl, target))
                  THEN Err("target score in the target list is different than the expected")
                  ELSE approvals_compare(L, tl, map, keys \ {target})

\* the loop over T::TargetList::iter() from node i on, then the comparison
RECURSIVE approvals_from(_, _, _, _, _)
approvals_from(L, vl, tl, i, map) ==
    IF i > Len(tl) THEN approvals_compare(L, tl, map, DOMAIN map)
    ELSE LET target == tl[i].id
         IN  CASE staking_status(L, target) = "Err" ->
                    IF voter_contains(vl, target)
                    THEN Err("dangling target (i.e. unbonded) should not be part of the voter list")
                    ELSE IF ~(tl[i].score > 0)
                         THEN Err("dangling target (i.e. unbonded) is part of the `TargetList` IFF it's approval voting > 0")
                         ELSE approvals_from(L, vl, tl, i + 1, map)
               [] staking_status(L, target) = "Idle" ->
                    IF voter_contains(vl, target)
                    THEN Err("chilled validator (idle target) should not be part of the voter list")
                    ELSE approvals_from(L, vl, tl, i + 1, approvals_add(map, target, 0))
               [] staking_status(L, target) = "Validator" ->
                    IF ~voter_contains(vl, target)
                    THEN Err("bonded and active validator should also be part of the voter list")
                    ELSE approvals_from(L, vl, tl, i + 1,
                             approvals_add(map, target,
                                           weight_of(L, stake_active(L, target))))
               [] OTHER ->
                    Panic("staker with nominator status should not be part of the target list")

do_try_state_approvals(L, vl, tl) ==
    IF \E v \in nominating_voters(L, vl) :
           weight_of(L, stake_active(L, v)) # voter_get_score(vl, v)
    THEN Err("voter score must be the same as its active stake")
    ELSE approvals_from(L, vl, tl, 1, approvals_of_voters(L, vl))

do_try_state(L, vl, tl) == do_try_state_approvals(L, vl, tl)

-----------------------------------------------------------------------------
(***************************************************************************)
(* The staking pallet that emits the events.  Every step mutates the       *)
(* ledger of one staker and delivers the matching event to the handlers,   *)
(* which read the ledger as it is after the mutation.  The events that     *)
(* remove a staker are delivered while its stake can still be read, and    *)
(* the ledger entry is dropped right after.  A handler that panics aborts  *)
(* the whole step: neither the ledger nor the lists change.                *)
(***************************************************************************)
Commit(after, S) ==
    /\ factor' = factor
    /\ try_state' = try_state
    /\ UNCHANGED <<tracer_vars, asset_vars>>
    /\ IF S.panic
       THEN UNCHANGED <<status, active, nominations, VoterList, TargetList>>
       ELSE /\ status' = after.status
            /\ active' = after.active
            /\ nominations' = after.nominations
            /\ VoterList' = S.voters
            /\ TargetList' = S.targets

\* a nomination the handlers support: a bonded staker that is not a nominator
ValidTarget(L, t) == staking_status(L, t) \in {"Validator", "Idle"}

Init ==
    /\ status = [a \in Accounts |-> "Err"]
    /\ active = [a \in Accounts |-> 0]
    /\ nominations = [a \in Accounts |-> <<>>]
    /\ factor \in 1..MaxFactor
    /\ VoterList = <<>>
    /\ TargetList = <<>>
    /\ try_state = <<>>
    /\ TracerNew
    /\ AssetUnused

\* bond: a new ledger; on_stake_update(who, None, stake)
Bond(who, value) ==
    /\ status[who] = "Err"
    /\ LET L == [Ledger EXCEPT !.status[who] = "Idle", !.active[who] = value]
       IN  Commit(L,
                  on_stake_update(L, Storage, who, None, value))

\* bond_extra, unbond, rebond, reward or applied slash: on_stake_update(who, Some(prev), stake)
StakeUpdate(who, value) ==
    /\ status[who] # "Err"
    /\ value # active[who]
    /\ LET L == [Ledger EXCEPT !.active[who] = value]
       IN  Commit(L,
                  on_stake_update(L, Storage, who, Some(active[who]), value))

\* the slash report that follows the ledger update of a slash
Slash(who, slashed) ==
    /\ status[who] # "Err"
    /\ Commit(Ledger, on_slash(Ledger, Storage, who, slashed, slashed))

\* validate: on_validator_add(who, Some(stake))
Validate(who) ==
    /\ status[who] = "Idle"
    /\ LET L == [Ledger EXCEPT !.status[who] = "Validator"]
       IN  Commit(L,
                  on_validator_add(L, Storage, who, Some(active[who])))

\* nominate by a staker without a role: on_nominator_add(who, targets)
Nominate(who, targets) ==
    /\ status[who] = "Idle"
    /\ LET L == [Ledger EXCEPT !.status[who] = "Nominator", !.nominations[who] = targets]
       IN  /\ \A i \in DOMAIN targets : ValidTarget(L, targets[i])
           /\ Commit(L,
                     on_nominator_add(L, Storage, who, targets))

\* nominate by a nominator: on_nominator_update(who, prev, targets)
Renominate(who, targets) ==
    /\ status[who] = "Nominator"
    /\ LET L == [Ledger EXCEPT !.nominations[who] = targets]
       IN  /\ \A i \in DOMAIN targets :
                 \/ SeqContains(nominations[who], targets[i])
                 \/ ValidTarget(L, targets[i])
           /\ Commit(L,
                     on_nominator_update(L, Storage, who, nominations[who], targets))

\* chill of a validator: on_validator_idle(who)
ChillValidator(who) ==
    /\ status[who] = "Validator"
    /\ LET L == [Ledger EXCEPT !.status[who] = "Idle"]
       IN  Commit(L, on_validator_idle(L, Storage, who))

\* chill of a nominator: on_nominator_idle(who, nominations)
ChillNominator(who) ==
    /\ status[who] = "Nominator"
    /\ LET L == [Ledger EXCEPT !.status[who] = "Idle", !.nominations[who] = <<>>]
       IN  Commit(L,
                  on_nominator_idle(L, Storage, who, nominations[who]))

Killed(who) ==
    [Ledger EXCEPT !.status[who] = "Err", !.active[who] = 0, !.nominations[who] = <<>>]

\* kill_stash of a validator or of a staker without a role: on_validator_remove(who)
KillValidator(who) ==
    /\ status[who] \in {"Validator", "Idle"}
    /\ Commit(Killed(who),
              on_validator_remove(Ledger, Storage, who))

\* kill_stash of a nominator: on_nominator_remove(who, nominations)
KillNominator(who) ==
    /\ status[who] = "Nominator"
    /\ LET L == [Ledger EXCEPT !.status[who] = "Idle", !.nominations[who] = <<>>]
       IN  Commit(Killed(who),
                  on_nominator_remove(L, Storage, who, nominations[who]))

Next ==
    \/ \E who \in Accounts, value \in 1..MaxStake : Bond(who, value)
    \/ \E who \in Accounts, value \in 0..MaxStake : StakeUpdate(who, value)
    \/ \E who \in Accounts, slashed \in 0..MaxStake : Slash(who, slashed)
    \/ \E who \in Accounts : Validate(who)
    \/ \E who \in Accounts, targets \in NominationLists : Nominate(who, targets)
    \/ \E who \in Accounts, targets \in NominationLists : Renominate(who, targets)
    \/ \E who \in Accounts : ChillValidator(who)
    \/ \E who \in Accounts : ChillNominator(who)
    \/ \E who \in Accounts : KillValidator(who)
    \/ \E who \in Accounts : KillNominator(who)

Spec == Init /\ [][Next]_vars

-----------------------------------------------------------------------------
(***************************************************************************)
(* The try-state checks on drawn inputs.  The ledger is any ledger with at *)
(* most one nominator (the stake of an Idle staker, which no check reads,  *)
(* is the full stake), the voter list is the one that mirrors the ledger,  *)
(* and the target list is any list of distinct accounts with scores up to  *)
(* MaxStake, sorted or not, consistent with the ledger or not.  Each check *)
(* is run once on the drawn input and its result is recorded.              *)
(***************************************************************************)
TargetListInputs ==
    {tl \in UNION {[1..n -> [id : Accounts, score : 0..MaxStake]] : n \in 0..NumAccounts} :
        \A i, j \in DOMAIN tl : i # j => tl[i].id # tl[j].id}

InitTryState ==
    /\ factor \in 1..MaxFactor
    /\ status \in [Accounts -> Statuses]
    /\ Cardinality({a \in Accounts : status[a] = "Nominator"}) <= 1
    /\ active \in [Accounts -> 0..MaxStake]
    /\ \A a \in Accounts : (status[a] = "Err") => (active[a] = 0)
    /\ \A a \in Accounts : (status[a] = "Idle") => (active[a] = MaxStake)
    /\ nominations \in [Accounts -> NominationLists \cup {<<>>}]
    /\ \A a \in Accounts : (status[a] = "Nominator") <=> (nominations[a] # <<>>)
    /\ VoterList = [v \in {a \in Accounts : status[a] \in {"Validator", "Nominator"}} |->
                       to_vote(Ledger, active[v])]
    /\ TargetList \in TargetListInputs
    /\ try_state = <<>>
    /\ TracerNew
    /\ AssetUnused

Ran(check, result) ==
    /\ try_state = <<>>
    /\ try_state' = <<check, result>>
    /\ UNCHANGED <<status, active, nominations, factor, VoterList, TargetList>>
    /\ UNCHANGED <<tracer_vars, asset_vars>>

\* Hooks::try_state
RunTryState == Ran("do_try_state", do_try_state(Ledger, VoterList, TargetList))

RunTryStateApprovals ==
    Ran("do_try_state_approvals", do_try_state_approvals(Ledger, VoterList, TargetList))

RunTryStateTargetSorting ==
    Ran("do_try_state_target_sorting", do_try_state_target_sorting(TargetList))

NextTryState == RunTryState \/ RunTryStateApprovals \/ RunTryStateTargetSorting

TryStateSpec == InitTryState /\ [][NextTryState]_vars

-----------------------------------------------------------------------------
(***************************************************************************)
(* Properties.  The approvals that do_try_state_approvals recomputes for a *)
(* target: its own weight if it is a validator plus the weight of every    *)
(* nominator that nominates it.                                            *)
(***************************************************************************)
NominatorsOf(t) ==
    {n \in Accounts : is_nominator(Ledger, n) /\ SeqContains(staking_nominations(Ledger, n), t)}

RECURSIVE SumWeights(_)
SumWeights(voters) ==
    IF voters = {} THEN 0
    ELSE LET n == CHOOSE x \in voters : TRUE
         IN  weight_of(Ledger, active_vote_of(Ledger, n)) + SumWeights(voters \ {n})

self_weight(t) ==
    IF staking_status(Ledger, t) = "Validator"
    THEN weight_of(Ledger, active_vote_of(Ledger, t)) ELSE 0

expected_approvals(t) == self_weight(t) + SumWeights(NominatorsOf(t))

in_targets(a) == target_contains(TargetList, a)
in_voters(a) == voter_contains(VoterList, a)
score_of(a) == target_get_score(TargetList, a)

SameLists(S1, S2) == S1.voters = S2.voters /\ S1.targets = S2.targets

\* C1: every listed target's score, in vote units as the approvals check compares it,
\* equals its self-weight (validators only) plus the weights of the nominators that
\* nominate it.
C1_ScoresMatchApprovals ==
    \A t \in target_ids(TargetList) :
        to_vote_extended(Ledger, score_of(t)) = expected_approvals(t)

C3_VotersAreValidatorsAndNominators ==
    \A a \in Accounts :
        in_voters(a) <=> staking_status(Ledger, a) \in {"Validator", "Nominator"}

\* a validator and a nominator are voters while a chilled validator, still a target, is not
C3_Witness ==
    \E v, n, i \in Accounts :
        /\ staking_status(Ledger, v) = "Validator" /\ in_voters(v)
        /\ staking_status(Ledger, n) = "Nominator" /\ in_voters(n)
        /\ staking_status(Ledger, i) = "Idle" /\ in_targets(i) /\ ~in_voters(i)

\* C4: no account whose status is Nominator is in TargetList.
C4_NoNominatorInTargetList ==
    \A a \in Accounts : staking_status(Ledger, a) = "Nominator" => ~in_targets(a)

\* C5: an unbonded account is in TargetList only with a score above zero.
C5_NoDanglingTargetWithZeroScore ==
    \A a \in Accounts :
        status_is_err(Ledger, a) /\ in_targets(a) => score_of(a) > 0

\* C6: every account whose status is Validator is in TargetList.
C6_ValidatorsAreTargets ==
    \A a \in Accounts : staking_status(Ledger, a) = "Validator" => in_targets(a)

\* a validator whose score has dropped to zero is still listed
C6_Witness ==
    \E a \in Accounts :
        /\ staking_status(Ledger, a) = "Validator"
        /\ in_targets(a) /\ score_of(a) = 0
        /\ \E b \in Accounts : in_targets(b) /\ score_of(b) > 0

C8_VoterScoreIsActiveStake ==
    \A a \in Accounts :
        in_voters(a) =>
            stake_is_ok(Ledger, a)
            /\ voter_get_score(VoterList, a) = weight_of(Ledger, stake_active(Ledger, a))

\* a validator and a nominator listed with different, non-zero weights
C8_Witness ==
    \E v, n \in Accounts :
        /\ staking_status(Ledger, v) = "Validator" /\ in_voters(v)
        /\ staking_status(Ledger, n) = "Nominator" /\ in_voters(n)
        /\ voter_get_score(VoterList, v) > voter_get_score(VoterList, n)
        /\ voter_get_score(VoterList, n) > 0

\* C9: in every state, for every who and nominations, a second on_nominator_add right
\* after a first one changes neither list.
C9_NominatorAddTwice ==
    \A who \in Accounts, noms \in NominationLists \cup {<<>>} :
        LET first == on_nominator_add(Ledger, Storage, who, noms)
        IN  SameLists(on_nominator_add(Ledger, first, who, noms), first)

\* a nominator whose on_nominator_add raised the score of its two targets
C9_Witness ==
    \E who \in Accounts :
        /\ staking_status(Ledger, who) = "Nominator" /\ in_voters(who)
        /\ voter_get_score(VoterList, who) > 0
        /\ Len(nominations[who]) = 2
        /\ \A i \in DOMAIN nominations[who] :
              /\ in_targets(nominations[who][i])
              /\ to_vote_extended(Ledger, score_of(nominations[who][i]))
                    >= voter_get_score(VoterList, who)
        /\ SameLists(on_nominator_add(Ledger, Storage, who, nominations[who]), Storage)

\* C10: in every state, for every who and nominations S, on_nominator_update(who, S, S)
\* changes neither list.
C10_NominatorUpdateSame ==
    \A who \in Accounts, noms \in NominationLists :
        SameLists(on_nominator_update(Ledger, Storage, who, noms, noms), Storage)

\* a nominator with weight whose nominations are listed targets
C10_Witness ==
    \E who \in Accounts :
        /\ staking_status(Ledger, who) = "Nominator"
        /\ weight_of(Ledger, active_vote_of(Ledger, who)) > 0
        /\ Len(nominations[who]) >= 1
        /\ \A i \in DOMAIN nominations[who] : in_targets(nominations[who][i])
        /\ SameLists(on_nominator_update(Ledger, Storage, who, nominations[who],
                                         nominations[who]), Storage)

-----------------------------------------------------------------------------
(***************************************************************************)
(* Contracts of the handlers.  Each is stated on every reachable state for *)
(* every call the staking pallet can deliver in it: the ledger is the one  *)
(* the event is delivered with, the storage is the current one.  Scores of *)
(* targets are compared in vote units, as do_try_state_approvals does.     *)
(***************************************************************************)
\* the approvals stored for t in the target list tl, zero if t is not listed
vote_score(L, tl, t) ==
    IF target_contains(tl, t) THEN to_vote_extended(L, target_get_score(tl, t)) ELSE 0

\* the ledger after `who` declared the nominations `noms`
NominatingLedger(who, noms) ==
    [Ledger EXCEPT !.status[who] = "Nominator", !.nominations[who] = noms]

\* nomination lists the staking pallet accepts from who under the ledger L
Nominable(L, noms) == \A i \in DOMAIN noms : ValidTarget(L, noms[i])

\* C11: on_nominator_add(who, noms) for a Nominator who that is not yet a voter inserts who
\* in VoterList with the weight of its active stake and raises the score of every
\* nomination by exactly that weight; for a who that is not a Nominator only the
\* VoterList insertion happens and TargetList is unchanged.
C11_NominatorAddContract ==
    \A who \in Accounts :
        ~in_voters(who) =>
            /\ \A noms \in NominationLists :
                  LET L == NominatingLedger(who, noms)
                      w == weight_of(L, stake_active(L, who))
                      R == on_nominator_add(L, Storage, who, noms)
                  IN  staking_status(Ledger, who) = "Idle" /\ Nominable(L, noms) =>
                          /\ voter_contains(R.voters, who)
                          /\ voter_get_score(R.voters, who) = w
                          /\ \A i \in DOMAIN noms :
                                /\ target_contains(R.targets, noms[i])
                                /\ vote_score(L, R.targets, noms[i])
                                      = vote_score(L, TargetList, noms[i]) + w
            /\ \A noms \in NominationLists \cup {<<>>}, st \in {"Idle", "Validator"} :
                  LET L == [Ledger EXCEPT !.status[who] = st]
                      R == on_nominator_add(L, Storage, who, noms)
                  IN  staking_status(Ledger, who) = "Idle" =>
                          /\ voter_contains(R.voters, who)
                          /\ voter_get_score(R.voters, who)
                                = weight_of(L, stake_active(L, who))
                          /\ R.targets = TargetList

\* an Idle staker with weight that can nominate a listed target with a score and an Idle
\* staker that is not listed yet: the call raises the first and inserts the second
C11_Witness ==
    \E who, a, b \in Accounts :
        /\ staking_status(Ledger, who) = "Idle" /\ ~in_voters(who)
        /\ a < b
        /\ weight_of(Ledger, stake_active(Ledger, who)) > 0
        /\ in_targets(a) /\ vote_score(Ledger, TargetList, a) > 0
        /\ staking_status(Ledger, b) = "Idle" /\ ~in_targets(b)
        /\ LET L == NominatingLedger(who, <<a, b>>)
               R == on_nominator_add(L, Storage, who, <<a, b>>)
           IN  /\ Nominable(L, <<a, b>>)
               /\ voter_contains(R.voters, who)
               /\ target_contains(R.targets, b)
               /\ vote_score(L, R.targets, a) > vote_score(L, TargetList, a)

\* C12: on_validator_idle(who) on a bonded validator lowers who's score by exactly the
\* weight of its active stake, keeps who in TargetList whatever the score becomes, and
\* removes who from VoterList.
C12_ValidatorIdleContract ==
    \A who \in Accounts, st \in {"Idle", "Validator"} :
        staking_status(Ledger, who) = "Validator" =>
            LET L == [Ledger EXCEPT !.status[who] = st]
                w == weight_of(L, stake_active(L, who))
                R == on_validator_idle(L, Storage, who)
            IN  /\ target_contains(R.targets, who)
                /\ vote_score(L, R.targets, who) = vote_score(L, TargetList, who) - w
                /\ ~voter_contains(R.voters, who)

\* Positive(w) has been applied to t between the target lists `before` and `after`: t is
\* listed with its approvals raised by w, unless it was neither listed nor Idle
positive_applied(L, before, after, t, w) ==
    IF ~target_contains(before, t) /\ staking_status(L, t) # "Idle"
    THEN ~target_contains(after, t)
    ELSE /\ target_contains(after, t)
         /\ vote_score(L, after, t) = vote_score(L, before, t) + w

\* Negative(w) has been applied to t between the target lists `before` and `after`: its
\* approvals are lowered by w, not below zero, and t is dropped if they reach zero and
\* t is not bonded; a t that was neither listed nor Idle stays unlisted
negative_applied(L, before, after, t, w) ==
    LET balance == saturating_sub(vote_score(L, before, t), w)
    IN  IF ~target_contains(before, t) /\ staking_status(L, t) # "Idle"
        THEN ~target_contains(after, t)
        ELSE IF balance = 0 /\ status_is_err(L, t)
             THEN ~target_contains(after, t)
             ELSE /\ target_contains(after, t)
                  /\ vote_score(L, after, t) = balance

\* the ledger after `who` stopped nominating, as on_nominator_idle and
\* on_nominator_remove are delivered with
ChilledLedger(who) ==
    [Ledger EXCEPT !.status[who] = "Idle", !.nominations[who] = <<>>]

\* C13: on_nominator_remove(who, noms), and on_nominator_idle with the same result,
\* applies Negative(weight of who's active stake) to the score of every nomination and
\* removes who from VoterList.
C13_NominatorRemoveContract ==
    \A who \in Accounts :
        staking_status(Ledger, who) = "Nominator" =>
            LET L == ChilledLedger(who)
                noms == nominations[who]
                w == weight_of(L, stake_active(L, who))
                R == on_nominator_remove(L, Storage, who, noms)
            IN  /\ ~voter_contains(R.voters, who)
                /\ \A i \in DOMAIN noms :
                      negative_applied(L, TargetList, R.targets, noms[i], w)
                /\ SameLists(on_nominator_idle(L, Storage, who, noms), R)

\* a nominator with weight that backs alone a target that is no longer bonded, and a
\* bonded one: the call drops the first and lowers the second
C13_Witness ==
    \E who, d, v \in Accounts :
        /\ staking_status(Ledger, who) = "Nominator" /\ in_voters(who)
        /\ weight_of(Ledger, stake_active(Ledger, who)) > 0
        /\ SeqContains(nominations[who], d) /\ SeqContains(nominations[who], v)
        /\ status_is_err(Ledger, d) /\ in_targets(d)
        /\ staking_status(Ledger, v) = "Validator" /\ in_targets(v)
        /\ LET L == ChilledLedger(who)
               R == on_nominator_remove(L, Storage, who, nominations[who])
           IN  /\ ~target_contains(R.targets, d)
               /\ target_contains(R.targets, v)
               /\ vote_score(L, R.targets, v) < vote_score(L, TargetList, v)
               /\ vote_score(L, R.targets, v) > 0
               /\ ~voter_contains(R.voters, who)

\* the imbalance between a previous weight and a new one has been applied to t
imbalance_applied(L, before, after, t, prev_weight, new_weight) ==
    IF prev_weight > new_weight
    THEN negative_applied(L, before, after, t, prev_weight - new_weight)
    ELSE positive_applied(L, before, after, t, new_weight - prev_weight)

\* C14: on_stake_update(who, prev, new) applies weight_of(new) - weight_of(prev), or the
\* full new weight when prev is absent, to every current nomination of a Nominator and
\* to the own score of a Validator, and sets who's VoterList score to weight_of(new).
C14_StakeUpdateContract ==
    \A who \in Accounts, stake \in 0..MaxStake :
      \A prev_stake \in {None, Some(active[who])} :
        staking_status(Ledger, who) \in {"Nominator", "Validator"} =>
            LET L == [Ledger EXCEPT !.active[who] = stake]
                prev_weight == IF prev_stake = None THEN 0 ELSE weight_of(L, prev_stake[1])
                new_weight == weight_of(L, stake)
                R == on_stake_update(L, Storage, who, prev_stake, stake)
                touched == IF staking_status(L, who) = "Nominator"
                           THEN staking_nominations(L, who) ELSE <<who>>
            IN  /\ voter_contains(R.voters, who)
                /\ voter_get_score(R.voters, who) = new_weight
                /\ \A i \in DOMAIN touched :
                      imbalance_applied(L, TargetList, R.targets, touched[i],
                                        prev_weight, new_weight)

\* a nominator and the validator it nominates, both with weight: a full unbond of either
\* lowers the validator's score and zeroes the voter's score
C14_Witness ==
    \E n, v \in Accounts :
        /\ staking_status(Ledger, n) = "Nominator" /\ SeqContains(nominations[n], v)
        /\ staking_status(Ledger, v) = "Validator" /\ in_targets(v)
        /\ weight_of(Ledger, stake_active(Ledger, n)) > 0
        /\ weight_of(Ledger, stake_active(Ledger, v)) > 0
        /\ \A who \in {n, v} :
              LET L == [Ledger EXCEPT !.active[who] = 0]
                  R == on_stake_update(L, Storage, who, Some(active[who]), 0)
              IN  /\ voter_get_score(R.voters, who) = 0
                  /\ vote_score(L, R.targets, v) < vote_score(L, TargetList, v)

\* the ledger after `who` declared the intention to validate
ValidatingLedger(who) == [Ledger EXCEPT !.status[who] = "Validator"]

\* C15: on_validator_add(who, self_stake) lists a who that is not a target with the
\* weight of the given self stake (zero for None), raises the score of a who that is a
\* target by that weight, and in both cases leaves who in VoterList with the weight of
\* its active stake.
C15_ValidatorAddContract ==
    \A who \in Accounts :
        \A self_stake \in {None, Some(active[who])} :
            staking_status(Ledger, who) = "Idle" =>
                LET L == ValidatingLedger(who)
                    self_weight_given == IF self_stake = None THEN 0
                                         ELSE weight_of(L, self_stake[1])
                    R == on_validator_add(L, Storage, who, self_stake)
                IN  /\ target_contains(R.targets, who)
                    /\ vote_score(L, R.targets, who)
                          = vote_score(L, TargetList, who) + self_weight_given
                    /\ voter_contains(R.voters, who)
                    /\ voter_get_score(R.voters, who) = weight_of(L, stake_active(L, who))

\* two Idle stakers with weight, one a target with approvals and one not listed: the
\* call raises the score of the first and lists the second with its weight
C15_Witness ==
    \E a, b \in Accounts :
        /\ staking_status(Ledger, a) = "Idle" /\ in_targets(a)
        /\ vote_score(Ledger, TargetList, a) > 0
        /\ staking_status(Ledger, b) = "Idle" /\ ~in_targets(b)
        /\ weight_of(Ledger, stake_active(Ledger, a)) > 0
        /\ weight_of(Ledger, stake_active(Ledger, b)) > 0
        /\ LET Ra == on_validator_add(ValidatingLedger(a), Storage, a, Some(active[a]))
               Rb == on_validator_add(ValidatingLedger(b), Storage, b, Some(active[b]))
           IN  /\ vote_score(Ledger, Ra.targets, a) > vote_score(Ledger, TargetList, a)
               /\ vote_score(Ledger, Rb.targets, b) > 0
               /\ voter_contains(Ra.voters, a) /\ voter_contains(Rb.voters, b)

\* the storage a call leaves behind: a call that panicked is rolled back
Outcome(S, R) == IF R.panic THEN S ELSE R

\* C16: on_validator_remove(who) for an Idle who, or for a Validator who after
\* on_validator_idle(who), removes who from TargetList exactly when its score is zero at
\* that point; a who with a score above zero stays listed with that score.
C16_ValidatorRemoveContract ==
    \A who \in Accounts :
        staking_status(Ledger, who) \in {"Idle", "Validator"} =>
            LET S1 == IF staking_status(Ledger, who) = "Validator"
                      THEN on_validator_idle(Ledger, Storage, who) ELSE Storage
                R == Outcome(Storage, on_validator_remove(Ledger, Storage, who))
            IN  IF target_contains(S1.targets, who) /\ target_get_score(S1.targets, who) # 0
                THEN /\ target_contains(R.targets, who)
                     /\ target_get_score(R.targets, who) = target_get_score(S1.targets, who)
                ELSE ~target_contains(R.targets, who)

\* an Idle target that keeps its approvals and stays listed, and a validator with only
\* its own weight that is taken off both lists
C16_Witness ==
    \E i, v \in Accounts :
        /\ staking_status(Ledger, i) = "Idle" /\ in_targets(i) /\ score_of(i) > 0
        /\ staking_status(Ledger, v) = "Validator" /\ in_targets(v) /\ score_of(v) > 0
        /\ LET Ri == on_validator_remove(Ledger, Storage, i)
               Rv == on_validator_remove(Ledger, Storage, v)
           IN  /\ ~Ri.panic /\ target_contains(Ri.targets, i)
               /\ ~Rv.panic /\ ~target_contains(Rv.targets, v)
               /\ ~voter_contains(Rv.voters, v)

\* C17: on_validator_remove(who) for a who whose status is Nominator or unknown is a
\* logged precondition violation that changes neither list.
C17_ValidatorRemoveRejected ==
    \A who \in Accounts :
        staking_status(Ledger, who) \in {"Nominator", "Err"} =>
            LET R == on_validator_remove(Ledger, Storage, who)
            IN  R.defensive /\ ~R.panic /\ SameLists(R, Storage)

\* a nominator listed as a target with score zero and an unbonded target with
\* approvals: the call leaves both where they are
C17_Witness ==
    \E n, d \in Accounts :
        /\ staking_status(Ledger, n) = "Nominator" /\ in_targets(n) /\ score_of(n) = 0
        /\ status_is_err(Ledger, d) /\ in_targets(d) /\ score_of(d) > 0
        /\ SameLists(on_validator_remove(Ledger, Storage, n), Storage)
        /\ SameLists(on_validator_remove(Ledger, Storage, d), Storage)

\* the entry of t, or its absence, is the same in both target lists
same_target(before, after, t) ==
    /\ target_contains(after, t) <=> target_contains(before, t)
    /\ target_contains(before, t) =>
          target_get_score(after, t) = target_get_score(before, t)

\* C18: on_nominator_update(who, prev, new) raises every target of new that is not in
\* prev by the weight of who's active stake, applies Negative of that weight to every
\* target of prev that is not in new, and changes neither a target that is in both nor
\* VoterList.
C18_NominatorUpdateContract ==
    \A who \in Accounts, noms \in NominationLists :
        LET prev == nominations[who]
            L == [Ledger EXCEPT !.nominations[who] = noms]
            w == weight_of(L, stake_active(L, who))
            R == on_nominator_update(L, Storage, who, prev, noms)
        IN  /\ staking_status(Ledger, who) = "Nominator"
            /\ \A i \in DOMAIN noms : SeqContains(prev, noms[i]) \/ ValidTarget(L, noms[i])
            =>  /\ R.voters = VoterList
                /\ \A t \in Accounts :
                      CASE SeqContains(noms, t) /\ ~SeqContains(prev, t) ->
                               /\ target_contains(R.targets, t)
                               /\ vote_score(L, R.targets, t)
                                     = vote_score(L, TargetList, t) + w
                        [] SeqContains(prev, t) /\ ~SeqContains(noms, t) ->
                               negative_applied(L, TargetList, R.targets, t, w)
                        [] SeqContains(prev, t) /\ SeqContains(noms, t) ->
                               same_target(TargetList, R.targets, t)
                        [] OTHER -> TRUE

\* a nominator with weight and two listed nominations: dropping the second lowers it and
\* leaves the first, and naming the second alone lowers the first
C18_Witness ==
    \E who, a, b \in Accounts :
        /\ staking_status(Ledger, who) = "Nominator" /\ nominations[who] = <<a, b>>
        /\ weight_of(Ledger, stake_active(Ledger, who)) > 0
        /\ in_targets(a) /\ in_targets(b)
        /\ vote_score(Ledger, TargetList, a) > 0 /\ vote_score(Ledger, TargetList, b) > 0
        /\ LET R == on_nominator_update([Ledger EXCEPT !.nominations[who] = <<a>>],
                                        Storage, who, <<a, b>>, <<a>>)
           IN  /\ vote_score(Ledger, R.targets, b) < vote_score(Ledger, TargetList, b)
               /\ same_target(TargetList, R.targets, a)
               /\ R.voters = VoterList

\* C19: on_nominator_remove(who, noms) for a who that is not in VoterList changes neither
\* VoterList nor the score or membership of any target.
C19_RemoveOfUnlistedVoterIsNoOp ==
    \A who \in Accounts, noms \in NominationLists :
        ~in_voters(who) =>
            SameLists(on_nominator_remove(Ledger, Storage, who, noms), Storage)

\* C20: on_slash, whatever its arguments, and on_stake_update for a who whose status is
\* Idle change neither list.
C20_SlashAndIdleStakeUpdateAreNoOps ==
    /\ \A stash \in Accounts, slashed_active \in 0..MaxStake, slashed_total \in 0..MaxStake :
          SameLists(on_slash(Ledger, Storage, stash, slashed_active, slashed_total), Storage)
    /\ \A who \in Accounts, stake \in 0..MaxStake :
          \A prev_stake \in {None, Some(active[who])} :
              staking_status(Ledger, who) \in {"Idle", "Err"} =>
                  LET L == [Ledger EXCEPT !.status[who] = "Idle", !.active[who] = stake]
                  IN  SameLists(on_stake_update(L, Storage, who, prev_stake, stake), Storage)

\* an Idle target with approvals and a stake with weight, next to a staker that was
\* slashed to nothing: a change of the Idle staker's stake moves no score
C20_Witness ==
    \E who, n \in Accounts :
        /\ staking_status(Ledger, who) = "Idle" /\ in_targets(who)
        /\ vote_score(Ledger, TargetList, who) > 0
        /\ weight_of(Ledger, stake_active(Ledger, who)) > 0
        /\ staking_status(Ledger, n) = "Nominator" /\ stake_active(Ledger, n) = 0
        /\ SameLists(on_stake_update([Ledger EXCEPT !.active[who] = 0], Storage, who,
                                     Some(active[who]), 0), Storage)
        /\ SameLists(on_slash(Ledger, Storage, n, 1, 1), Storage)

-----------------------------------------------------------------------------
(***************************************************************************)
(* update_target_score, on every reachable storage, for every target,      *)
(* every status the target can be looked up with and every imbalance up to *)
(* the weight of two full stakes.                                          *)
(***************************************************************************)
Imbalances == 0..(2 * MaxStake)

\* the ledger in which the status of t reads st
WithStatus(t, st) == [Ledger EXCEPT !.status[t] = st]

Max(a, b) == IF a >= b THEN a ELSE b

\* C21: update_target_score(t, Negative(d)) on a listed t computes
\* new = max(score - d, 0) in vote units; t is removed exactly when new is zero and the
\* status lookup of t fails; otherwise t stays listed with new written back.
C21_NegativeOnListedTarget ==
    \A t \in Accounts, st \in Statuses, d \in Imbalances :
        in_targets(t) =>
            LET L == WithStatus(t, st)
                new == Max(vote_score(L, TargetList, t) - d, 0)
                R == update_target_score(L, Storage, t, Negative(d))
            IN  IF new = 0 /\ st = "Err"
                THEN ~target_contains(R.targets, t)
                ELSE /\ target_contains(R.targets, t)
                     /\ target_get_score(R.targets, t) = to_currency(L, new)
                     /\ vote_score(L, R.targets, t) = new

\* an unbonded target and an Idle target, both with approvals: taking all of them off
\* removes the first and leaves the second listed with score zero
C21_Witness ==
    \E a, b \in Accounts :
        /\ status_is_err(Ledger, a) /\ in_targets(a) /\ vote_score(Ledger, TargetList, a) > 0
        /\ staking_status(Ledger, b) = "Idle" /\ in_targets(b)
        /\ vote_score(Ledger, TargetList, b) > 0
        /\ LET Ra == update_target_score(Ledger, Storage, a,
                                         Negative(vote_score(Ledger, TargetList, a)))
               Rb == update_target_score(Ledger, Storage, b,
                                         Negative(vote_score(Ledger, TargetList, b)))
           IN  /\ ~target_contains(Ra.targets, a)
               /\ target_contains(Rb.targets, b) /\ target_get_score(Rb.targets, b) = 0

\* C22: update_target_score on a t that is not listed changes neither list when the
\* status of t is unknown, Nominator or Validator; when it is Idle, t ends up listed with
\* score d for Positive(d) and with score zero for Negative(d).
C22_UpdateOfUnlistedTarget ==
    \A t \in Accounts, st \in Statuses, d \in Imbalances :
        ~in_targets(t) =>
            LET L == WithStatus(t, st)
                P == update_target_score(L, Storage, t, Positive(d))
                N == update_target_score(L, Storage, t, Negative(d))
            IN  IF st = "Idle"
                THEN /\ target_contains(P.targets, t)
                     /\ target_get_score(P.targets, t) = to_currency(L, d)
                     /\ vote_score(L, P.targets, t) = d
                     /\ target_contains(N.targets, t)
                     /\ target_get_score(N.targets, t) = 0
                ELSE /\ SameLists(P, Storage) /\ P.defensive
                     /\ SameLists(N, Storage) /\ N.defensive

\* an Idle staker and a nominator that are not listed, next to a listed target: the
\* first is inserted by the update, the second is not
C22_Witness ==
    \E i, n, v \in Accounts :
        /\ staking_status(Ledger, i) = "Idle" /\ ~in_targets(i)
        /\ staking_status(Ledger, n) = "Nominator" /\ ~in_targets(n)
        /\ in_targets(v) /\ score_of(v) > 0
        /\ target_contains(update_target_score(Ledger, Storage, i, Positive(1)).targets, i)
        /\ SameLists(update_target_score(Ledger, Storage, n, Positive(1)), Storage)

\* C23: update_target_score(t, Positive(d)) on a listed t raises the stored score by
\* exactly d converted to the list's unit and keeps t listed, whatever the status of t
\* and also for d = 0.
C23_PositiveOnListedTarget ==
    \A t \in Accounts, st \in Statuses, d \in Imbalances :
        in_targets(t) =>
            LET L == WithStatus(t, st)
                R == update_target_score(L, Storage, t, Positive(d))
            IN  /\ target_contains(R.targets, t)
                /\ target_get_score(R.targets, t) = score_of(t) + to_currency(L, d)

\* an unbonded target listed with score zero: Positive(0) keeps it, Positive(1) raises it
C23_Witness ==
    \E t \in Accounts :
        /\ status_is_err(Ledger, t) /\ in_targets(t) /\ score_of(t) = 0
        /\ factor > 1
        /\ LET R0 == update_target_score(Ledger, Storage, t, Positive(0))
               R1 == update_target_score(Ledger, Storage, t, Positive(1))
           IN  /\ target_contains(R0.targets, t) /\ target_get_score(R0.targets, t) = 0
               /\ target_contains(R1.targets, t)
               /\ target_get_score(R1.targets, t) = factor

\* the result of the named try-state check, when it is the one that ran
ran(check) == try_state # <<>> /\ try_state[1] = check
result == try_state[2]

non_increasing(tl) == \A i \in 1..(Len(tl) - 1) : tl[i].score >= tl[i + 1].score

\* C24: do_try_state returns Ok only if the approvals check passes and the target
\* list is sorted by score; an unsorted target list makes it fail.
C24_TryStateRunsBothChecks ==
    ran("do_try_state") =>
        /\ result = Ok =>
               /\ do_try_state_approvals(Ledger, VoterList, TargetList) = Ok
               /\ non_increasing(TargetList)
        /\ ~non_increasing(TargetList) => result # Ok

\* C25: do_try_state_target_sorting returns Ok exactly when the scores, in iteration
\* order, never increase, and "target list is not sorted" when some adjacent pair
\* increases.
C25_SortingCheckIffSorted ==
    ran("do_try_state_target_sorting") =>
        /\ result = Ok <=> non_increasing(TargetList)
        /\ ~non_increasing(TargetList) => result = Err("target list is not sorted")

\* accounts some voter nominates, and accounts approvals are recomputed for
nominated_by_voter(t) == \E n \in NominatorsOf(t) : in_voters(n)
has_recomputed_approvals(t) ==
    nominated_by_voter(t) \/ (in_targets(t) /\ staking_status(Ledger, t) \in {"Idle", "Validator"})

approvals_differ ==
    \E t \in Accounts :
        /\ in_targets(t) /\ has_recomputed_approvals(t)
        /\ to_vote_extended(Ledger, score_of(t)) # expected_approvals(t)
nominated_missing == \E t \in Accounts : nominated_by_voter(t) /\ ~in_targets(t)
extra_target == \E t \in Accounts : in_targets(t) /\ ~has_recomputed_approvals(t)
approvals_inconsistent == approvals_differ \/ nominated_missing \/ extra_target

\* C26: do_try_state_approvals returns an error value whenever the recomputed
\* approvals differ from a stored score, a nominated account is missing from
\* TargetList or TargetList has an extra entry, and returns Ok only when both agree
\* key by key.
C26_ApprovalsCheckReportsInconsistency ==
    ran("do_try_state_approvals") =>
        /\ approvals_inconsistent => result[1] = "Err"
        /\ result = Ok => ~approvals_inconsistent

\* C27: whenever on_validator_add(who, _) is delivered, after the ledger update, for a
\* who that is already in TargetList, the handler finds who's status Idle or unknown:
\* its debug assertion holds.
C27_ValidatorAddAssertionHolds ==
    \A who \in Accounts :
        staking_status(Ledger, who) = "Idle" /\ in_targets(who) =>
            ~on_validator_add(ValidatingLedger(who), Storage, who,
                              Some(active[who])).assert_failed

\* C28: no handler aborts on a failed expect; on_validator_remove(who) for an Idle who
\* that is not in TargetList completes and leaves both lists unchanged.
C28_NoHandlerPanics ==
    \A who \in Accounts :
        /\ staking_status(Ledger, who) = "Idle" =>
               ~on_validator_add(ValidatingLedger(who), Storage, who,
                                 Some(active[who])).panic
        /\ staking_status(Ledger, who) \in {"Idle", "Validator"} =>
               ~on_validator_remove(Ledger, Storage, who).panic
        /\ staking_status(Ledger, who) = "Idle" /\ ~in_targets(who) =>
               SameLists(on_validator_remove(Ledger, Storage, who), Storage)

\* C29: on_nominator_remove(who, noms) lowers every nomination by the score who held
\* in VoterList before the call, whether who's stake is still readable or who has
\* already been removed from the ledger.
C29_NominatorRemoveLowersByVoterScore ==
    \A who \in Accounts :
        staking_status(Ledger, who) = "Nominator" /\ in_voters(who) =>
            \A L \in {ChilledLedger(who), Killed(who)} :
                LET noms == nominations[who]
                    R == on_nominator_remove(L, Storage, who, noms)
                IN  \A i \in DOMAIN noms :
                        negative_applied(L, TargetList, R.targets, noms[i],
                                         voter_get_score(VoterList, who))

\* the accounts of a nomination list
named(noms) == {noms[i] : i \in DOMAIN noms}

\* between the storages S and R no voter other than who changed, and no target outside
\* `targets` changed its score or membership
frame_kept(S, R, who, targets) ==
    /\ \A v \in Accounts \ {who} :
          /\ voter_contains(R.voters, v) <=> voter_contains(S.voters, v)
          /\ voter_contains(S.voters, v) =>
                voter_get_score(R.voters, v) = voter_get_score(S.voters, v)
    /\ \A t \in Accounts \ targets : same_target(S.targets, R.targets, t)

\* C30: the nominator handlers change no voter other than who and no target that is
\* not named in the nomination lists of the call; on_stake_update changes only who's
\* voter entry and the target entry of who (Validator) or of who's nominations
\* (Nominator).
C30_HandlersKeepTheFrame ==
    \A who \in Accounts :
        /\ staking_status(Ledger, who) = "Idle" =>
              \A noms \in NominationLists :
                  frame_kept(Storage,
                             on_nominator_add(NominatingLedger(who, noms), Storage, who, noms),
                             who, named(noms))
        /\ staking_status(Ledger, who) = "Nominator" =>
              \A noms \in NominationLists :
                  /\ \A L \in {ChilledLedger(who), Killed(who)} :
                        frame_kept(Storage, on_nominator_remove(L, Storage, who, noms),
                                   who, named(noms))
                  /\ frame_kept(Storage,
                                on_nominator_idle(ChilledLedger(who), Storage, who, noms),
                                who, named(noms))
                  /\ frame_kept(Storage,
                                on_nominator_update([Ledger EXCEPT !.nominations[who] = noms],
                                                    Storage, who, nominations[who], noms),
                                who, named(nominations[who]) \cup named(noms))
        /\ \A stake \in 0..MaxStake :
              \A prev_stake \in {None, Some(active[who])} :
                  LET L == [Ledger EXCEPT !.active[who] = stake]
                      own == CASE staking_status(L, who) = "Validator" -> {who}
                               [] staking_status(L, who) = "Nominator" ->
                                      named(staking_nominations(L, who))
                               [] OTHER -> {}
                  IN  frame_kept(Storage, on_stake_update(L, Storage, who, prev_stake, stake),
                                 who, own)

\* a nominator with weight leaves while an Idle target it does not nominate is listed
\* with score zero and another voter holds a score: the call lowers the nomination and
\* touches neither
C30_Witness ==
    \E who, t, u \in Accounts :
        /\ staking_status(Ledger, who) = "Nominator" /\ in_voters(who)
        /\ weight_of(Ledger, stake_active(Ledger, who)) > 0
        /\ SeqContains(nominations[who], t) /\ in_targets(t)
        /\ u # t /\ ~SeqContains(nominations[who], u)
        /\ staking_status(Ledger, u) = "Idle" /\ in_targets(u) /\ score_of(u) = 0
        /\ in_voters(t) /\ voter_get_score(VoterList, t) > 0
        /\ LET R == on_nominator_remove(ChilledLedger(who), Storage, who, nominations[who])
           IN  /\ vote_score(Ledger, R.targets, t) < vote_score(Ledger, TargetList, t)
               /\ same_target(TargetList, R.targets, u)
               /\ voter_get_score(R.voters, t) = voter_get_score(VoterList, t)
               /\ ~voter_contains(R.voters, who)

\* Negative(d), applied to those of `targets` that tl lists, does not exceed their scores
within_score(L, tl, targets, d) ==
    \A i \in DOMAIN targets :
        target_contains(tl, targets[i]) => d <= vote_score(L, tl, targets[i])

\* C31: in every run of events, a Negative(d) that update_target_score applies to a
\* listed target never exceeds the target's score, so the saturating subtraction never
\* clamps: checked for the chill or removal of a nominator, a change of nominations,
\* the chill or removal of a validator, and a lowered stake.
C31_NegativeNeverClamps ==
    \A who \in Accounts :
        /\ staking_status(Ledger, who) = "Nominator" =>
              LET L == ChilledLedger(who)
                  w == weight_of(L, active_vote_of(L, who))
              IN  /\ within_score(L, TargetList, nominations[who], w)
                  /\ \A noms \in NominationLists :
                        within_score([Ledger EXCEPT !.nominations[who] = noms], TargetList,
                                     not_in(nominations[who], noms), w)
        /\ staking_status(Ledger, who) = "Validator" =>
              LET L == [Ledger EXCEPT !.status[who] = "Idle"]
              IN  within_score(L, TargetList, <<who>>, weight_of(L, active_vote_of(L, who)))
        /\ staking_status(Ledger, who) \in {"Validator", "Nominator"} =>
              \A stake \in 0..MaxStake :
                  LET L == [Ledger EXCEPT !.active[who] = stake]
                      imbalance == stake_imbalance_of(L, Some(active[who]), weight_of(L, stake))
                  IN  imbalance.sign = "Negative" =>
                          within_score(L, TargetList,
                                       IF staking_status(L, who) = "Validator" THEN <<who>>
                                       ELSE staking_nominations(L, who),
                                       imbalance.amount)

-----------------------------------------------------------------------------
(***************************************************************************)
(* revive's CallTracer (debug.rs).  A CallTrace keeps the fields the       *)
(* tracer computes or sets later: call_type, output, gas_used and calls;   *)
(* from, to, value and gas are copied from the arguments as input is, and  *)
(* `input` stands for all of them.  Indices are the Vec's, from 0.         *)
(***************************************************************************)
Inputs == 1..2
Outputs == 1..2
Gas == 1..2

tracker_vars == <<status, active, nominations, factor, VoterList, TargetList, try_state>>

\* the stake tracker with no staker, as the tracer and the asset module leave it
TrackerUnused ==
    /\ status = [a \in Accounts |-> "Err"]
    /\ active = [a \in Accounts |-> 0]
    /\ nominations = [a \in Accounts |-> <<>>]
    /\ factor = 1
    /\ VoterList = <<>>
    /\ TargetList = <<>>
    /\ try_state = <<>>

call_type_of(is_delegate_call, is_read_only) ==
    IF is_read_only THEN "StaticCall"
    ELSE IF is_delegate_call THEN "DelegateCall" ELSE "Call"

\* CallTrace { input, call_type, ..Default::default() }
new_trace(input, is_delegate_call, is_read_only) ==
    [input |-> input, call_type |-> call_type_of(is_delegate_call, is_read_only),
     output |-> 0, gas_used |-> 0, calls |-> <<>>]

\* Vec::remove(index)
vec_remove(v, index) ==
    [i \in 1..(Len(v) - 1) |-> IF i < index + 1 THEN v[i] ELSE v[i + 1]]

all_but_last(v) == SubSeq(v, 1, Len(v) - 1)

enter_child_span(t, input, is_delegate_call, is_read_only) ==
    LET traces == Append(t.traces, new_trace(input, is_delegate_call, is_read_only))
    IN  [traces |-> traces,
         current_stack |-> Append(t.current_stack, Len(traces) - 1)]

\* mutant: the finished trace is not moved into its parent
exit_child_span_keeps_flat(t, output, gas_consumed) ==
    LET current_index == t.current_stack[Len(t.current_stack)]
        stack == all_but_last(t.current_stack)
    IN  [traces |-> [t.traces EXCEPT ![current_index + 1].output = output,
                                     ![current_index + 1].gas_used = gas_consumed],
         current_stack |-> stack]

exit_child_span(t, output, gas_consumed) ==
    LET current_index == t.current_stack[Len(t.current_stack)]
        stack == all_but_last(t.current_stack)
        traces == [t.traces EXCEPT ![current_index + 1].output = output,
                                   ![current_index + 1].gas_used = gas_consumed]
    IN  IF stack # <<>>
        THEN LET parent_index == stack[Len(stack)]
                 child_trace == traces[current_index + 1]
                 rest == vec_remove(traces, current_index)
             IN  [traces |-> [rest EXCEPT ![parent_index + 1].calls =
                                              Append(@, child_trace)],
                  current_stack |-> stack]
        ELSE [traces |-> traces, current_stack |-> stack]

\* the calls as a forest: a call that returns goes under the call it was made from,
\* or among the top-level calls
log_enter(log, trace) == [log EXCEPT !.open = Append(@, trace)]

log_exit(log, output, gas_consumed) ==
    LET returned == [log.open[Len(log.open)] EXCEPT !.output = output,
                                                    !.gas_used = gas_consumed]
        callers == all_but_last(log.open)
    IN  IF callers = <<>>
        THEN [open |-> <<>>, done |-> Append(log.done, returned)]
        ELSE [open |-> [callers EXCEPT ![Len(callers)].calls = Append(@, returned)],
              done |-> log.done]

RECURSIVE CountCalls(_)
CountCalls(forest) ==
    IF forest = <<>> THEN 0
    ELSE 1 + CountCalls(Head(forest).calls) + CountCalls(Tail(forest))

InitCallTracer == TrackerUnused /\ TracerNew /\ AssetUnused

EnterChildSpan(input, is_delegate_call, is_read_only) ==
    /\ CountCalls(call_log.open) + CountCalls(call_log.done) < MaxCalls
    /\ tracer' = enter_child_span(tracer, input, is_delegate_call, is_read_only)
    /\ call_log' = log_enter(call_log, new_trace(input, is_delegate_call, is_read_only))
    /\ UNCHANGED <<tracker_vars, asset_vars>>

\* well-nested: an exit follows the enter of a call that has not returned
ExitChildSpan(output, gas_consumed) ==
    /\ call_log.open # <<>>
    /\ tracer' = exit_child_span(tracer, output, gas_consumed)
    /\ call_log' = log_exit(call_log, output, gas_consumed)
    /\ UNCHANGED <<tracker_vars, asset_vars>>

NextCallTracer ==
    \/ \E input \in Inputs, is_delegate_call, is_read_only \in BOOLEAN :
          EnterChildSpan(input, is_delegate_call, is_read_only)
    \/ \E output \in Outputs, gas_consumed \in Gas : ExitChildSpan(output, gas_consumed)

CallTracerSpec == InitCallTracer /\ [][NextCallTracer]_vars

\* C32: for every well-nested sequence of enter_child_span / exit_child_span calls,
\* every index in current_stack is an index of traces at all times, and once every
\* call has returned current_stack is empty and traces is the forest of the calls:
\* the top-level calls in call order, each nested call once in its parent's calls in
\* call order, with the output and gas_used of its own exit.
C32_CallTracerKeepsTheCallTree ==
    /\ \A i \in DOMAIN tracer.current_stack :
          tracer.current_stack[i] \in 0..(Len(tracer.traces) - 1)
    /\ call_log.open = <<>> =>
          (tracer.current_stack = <<>> /\ tracer.traces = call_log.done)

\* a top-level call that returned, then a second one that made a nested call, all
\* returned with different outputs
C32_Witness ==
    /\ tracer.current_stack = <<>>
    /\ Len(tracer.traces) = 2
    /\ tracer.traces[1].calls = <<>>
    /\ Len(tracer.traces[2].calls) = 1
    /\ tracer.traces[2].calls[1].output # tracer.traces[2].output
    /\ tracer.traces[2].calls[1].output # 0
    /\ tracer.traces[2].calls[1].gas_used # tracer.traces[2].gas_used

-----------------------------------------------------------------------------
(***************************************************************************)
(* The staking asset module (asset.rs).  A is the record of the balances   *)
(* and of the provider references, with the DispatchResult of the call.    *)
(* The fungible hold and the provider counter are modelled from their      *)
(* interfaces: set_on_hold forces the held balance to the amount and fails *)
(* when the account's funds do not cover it, release_all frees the whole   *)
(* hold, inc_providers / dec_providers count one reference.                *)
(***************************************************************************)
Asset == [free |-> free, on_hold |-> on_hold, providers |-> providers, result |-> "Ok"]

staked(A, who) == A.on_hold[who]

inc_providers(A, who) == [A EXCEPT !.providers[who] = @ + 1]
dec_providers(A, who) == [A EXCEPT !.providers[who] = @ - 1]

set_on_hold(A, who, amount) ==
    IF amount <= A.free[who] + A.on_hold[who]
    THEN [A EXCEPT !.free[who] = A.free[who] + A.on_hold[who] - amount,
                   !.on_hold[who] = amount]
    ELSE [A EXCEPT !.result = "Err"]

release_all(A, who) ==
    [A EXCEPT !.free[who] = A.free[who] + A.on_hold[who], !.on_hold[who] = 0]

update_stake(A, who, amount) ==
    LET A1 == IF staked(A, who) = 0 /\ amount > 0 THEN inc_providers(A, who) ELSE A
    IN  set_on_hold(A1, who, amount)

kill_stake(A, who) ==
    LET A1 == release_all(A, who)
    IN  IF A1.result # "Ok" THEN A1 ELSE dec_providers(A1, who)

InitAsset ==
    /\ TrackerUnused
    /\ TracerNew
    /\ free \in [Accounts -> 1..MaxStake]
    /\ on_hold = [a \in Accounts |-> 0]
    /\ providers = [a \in Accounts |-> 0]
    /\ killed = [a \in Accounts |-> FALSE]

Stored(A) ==
    /\ free' = A.free
    /\ on_hold' = A.on_hold
    /\ providers' = A.providers
    /\ UNCHANGED <<tracker_vars, tracer_vars>>

UpdateStake(who, amount) ==
    /\ providers[who] < MaxProviders
    /\ Stored(update_stake(Asset, who, amount))
    /\ killed' = [killed EXCEPT ![who] = FALSE]

KillStake(who) ==
    /\ providers[who] > 0 - MaxProviders
    /\ Stored(kill_stake(Asset, who))
    /\ killed' = [killed EXCEPT ![who] = TRUE]

NextAsset ==
    \/ \E who \in Accounts, amount \in 0..MaxStake : UpdateStake(who, amount)
    \/ \E who \in Accounts : KillStake(who)

AssetSpec == InitAsset /\ [][NextAsset]_vars

\* C33: after any sequence of update_stake and kill_stake calls, staking holds exactly
\* one provider reference for who while who's staked balance is not zero, none once
\* the stake has been killed, and never more than one.
C33_OneProviderReferencePerStaker ==
    \A who \in Accounts :
        /\ on_hold[who] > 0 => providers[who] = 1
        /\ killed[who] => providers[who] = 0
        /\ providers[who] <= 1

====
